---- MODULE Spec2Model ----
(***************************************************************************)
(* State-machine model of the swhkd daemon (src/src/daemon.rs): the        *)
(* single-instance guard at startup and the select! event loop over the    *)
(* repeat timer, the signal stream and the per-device key event streams.   *)
(***************************************************************************)
EXTENDS Integers, Sequences, FiniteSets, TLC

\* ---------------------------------------------------------------- bounds
\* At most MaxHeld keys are physically down at once, over all keyboards.
MaxHeld == 3

\* The --cooldown argument, in units of one step of the clock.
MaxCooldown == 2

\* ------------------------------------------------------------ environment
\* The grabbed keyboards, by their index in keyboard_stream_map.
Devices == {1, 2}

\* The physical keys of the modelled keyboards: a full keyboard and a keypad.
Keys == {"KEY_LEFTMETA", "KEY_RIGHTMETA", "KEY_LEFTSHIFT", "KEY_ENTER", "KEY_ESC"}
DevKeys == [i \in Devices |-> IF i = 1 THEN Keys ELSE {"KEY_LEFTMETA", "KEY_ENTER"}]

\* Processes started from the swhkd executable (pid = the element).
Procs == {1, 2, 3}

\* ------------------------------------------------------------- data model
modifiers_map ==
    [k \in {"KEY_LEFTMETA", "KEY_RIGHTMETA", "KEY_LEFTALT", "KEY_RIGHTALT",
            "KEY_LEFTCTRL", "KEY_RIGHTCTRL", "KEY_LEFTSHIFT", "KEY_RIGHTSHIFT"} |->
        CASE k \in {"KEY_LEFTMETA", "KEY_RIGHTMETA"}   -> "Super"
          [] k \in {"KEY_LEFTALT", "KEY_RIGHTALT"}     -> "Alt"
          [] k \in {"KEY_LEFTCTRL", "KEY_RIGHTCTRL"}   -> "Control"
          [] k \in {"KEY_LEFTSHIFT", "KEY_RIGHTSHIFT"} -> "Shift"]

\* Option<config::Hotkey>::None
NoHotkey == [modifiers |-> {}, keysym |-> "NONE", command |-> ""]

HkTerm  == [modifiers |-> {"Super"}, keysym |-> "KEY_ENTER", command |-> "term"]
HkFloat == [modifiers |-> {"Super", "Shift"}, keysym |-> "KEY_ENTER", command |-> "float"]

\* The hotkey tables config::load can return (config-file order).
Configs == {<<HkTerm>>, <<HkFloat, HkTerm>>, <<>>}

\* KeyboardState::new()
NewKeyboardState == [state_modifiers |-> {}, state_keysyms |-> {}]

VARIABLES
    \* --- the daemon's event loop
    pc,                        \* "loop", "exit1" (exit(1)) or "panic" (unwrap)
    hotkeys,                   \* the HotkeyTable
    keyboard_states,           \* per device: state_modifiers, state_keysyms
    last_hotkey,               \* Option<Hotkey>
    paused, temp_paused,
    hotkey_repeat_timer,       \* time left until the sleep completes (0: elapsed)
    \* --- the environment
    phys,                      \* per device: the keys physically down
    grabbed,                   \* the devices the daemon holds the exclusive grab of
    \* --- history
    ev,                        \* what the last step of the loop did
    fwd_down,                  \* per device: keys down whose press was emitted
    since_dispatch,            \* time since the last send_command, saturated at the cooldown
    fire_dev, fire_hotkey,     \* the device and hotkey of the last fire not yet re-armed (C7)
    rearmed,                   \* a constituent key of fire_hotkey was released on fire_dev
    rearmed_any,               \* ... was released on any device
    \* --- startup of the processes (single-instance guard)
    gpc,                       \* per process: position in main's startup
    pidfile,                   \* content of /tmp/swhkd.pid, 0 when absent
    swhkd_pid                  \* per process: the PID it read from the file

loopvars == <<pc, hotkeys, keyboard_states, last_hotkey, paused, temp_paused,
              hotkey_repeat_timer, phys, grabbed, ev, fwd_down,
              since_dispatch, fire_dev, fire_hotkey, rearmed, rearmed_any>>
guardvars == <<gpc, pidfile, swhkd_pid>>
vars == <<loopvars, guardvars>>

\* lines 140-144
repeat_cooldown_duration == MaxCooldown

\* ----------------------------------------------------------- key handling
IsModifierKey(key) == key \in DOMAIN modifiers_map

\* variant: the release of a modifier key leaves state_modifiers alone
StateAfter_KeepsModifier(ks, key, value) ==
    IF value = 1
    THEN IF IsModifierKey(key)
         THEN [ks EXCEPT !.state_modifiers = @ \cup {modifiers_map[key]}]
         ELSE [ks EXCEPT !.state_keysyms = @ \cup {key}]
    ELSE IF value = 0 /\ key \in ks.state_keysyms
    THEN [ks EXCEPT !.state_keysyms = @ \ {key}]
    ELSE ks

\* lines 219-245: the match on event.value(), effect on the device's state
StateAfter(ks, key, value) ==
    IF value = 1
    THEN IF IsModifierKey(key)
         THEN [ks EXCEPT !.state_modifiers = @ \cup {modifiers_map[key]}]
         ELSE [ks EXCEPT !.state_keysyms = @ \cup {key}]
    ELSE IF value = 0
    THEN IF IsModifierKey(key)
         THEN [ks EXCEPT !.state_modifiers = @ \ {modifiers_map[key]}]
         ELSE IF key \in ks.state_keysyms
              THEN [ks EXCEPT !.state_keysyms = @ \ {key}]
              ELSE ks
    ELSE ks

\* variant: only the release of a modifier clears last_hotkey
LastAfter_ModifiersOnly(last, ks, key, value) ==
    IF value = 0 /\ IsModifierKey(key) /\ last # NoHotkey
                 /\ modifiers_map[key] \in last.modifiers
    THEN NoHotkey ELSE last

\* variant: every release clears last_hotkey
LastAfter_AnyRelease(last, ks, key, value) ==
    IF value = 0 THEN NoHotkey ELSE last

\* lines 227-243: the release arm's effect on last_hotkey
LastAfter(last, ks, key, value) ==
    IF value = 0
    THEN IF IsModifierKey(key)
         THEN IF last # NoHotkey /\ modifiers_map[key] \in last.modifiers
              THEN NoHotkey ELSE last
         ELSE IF key \in ks.state_keysyms /\ last # NoHotkey /\ key = last.keysym
              THEN NoHotkey ELSE last
    ELSE last

\* variant: the candidate filter compares with < instead of ==
possible_hotkeys_Fewer(hk, ks) ==
    SelectSeq(hk, LAMBDA h : Cardinality(h.modifiers) < Cardinality(ks.state_modifiers))

\* lines 247-249
possible_hotkeys(hk, ks) ==
    SelectSeq(hk, LAMBDA h : Cardinality(h.modifiers) = Cardinality(ks.state_modifiers))

\* variant: subset semantics, the length comparison is missing
event_in_hotkeys_Subset(hk, ks, code) ==
    \E n \in 1..Len(hk) :
        /\ hk[n].keysym = code
        /\ \A x \in ks.state_modifiers : x \in hk[n].modifiers

\* lines 251-257
event_in_hotkeys(hk, ks, code) ==
    \E n \in 1..Len(hk) :
        /\ hk[n].keysym = code
        /\ \A x \in ks.state_modifiers : x \in hk[n].modifiers
        /\ Cardinality(ks.state_modifiers) = Cardinality(hk[n].modifiers)

\* variant: only the number of modifiers is compared
HotkeyMatches_NoSubset(h, ks) ==
    /\ Cardinality(ks.state_modifiers) = Cardinality(h.modifiers)
    /\ h.keysym \in ks.state_keysyms

\* lines 288-290
HotkeyMatches(h, ks) ==
    /\ \A x \in ks.state_modifiers : x \in h.modifiers
    /\ Cardinality(ks.state_modifiers) = Cardinality(h.modifiers)
    /\ h.keysym \in ks.state_keysyms

\* lines 286-297: the first candidate that matches, NoHotkey when none does
FirstMatch(cands, ks) ==
    LET idx == {n \in 1..Len(cands) : HotkeyMatches(cands[n], ks)}
    IN  IF idx = {} THEN NoHotkey
        ELSE cands[CHOOSE n \in idx : \A m \in idx : n <= m]

\* lines 277-279
TempPauseEscape(ks) ==
    /\ \A x \in ks.state_modifiers : x \in {"Shift", "Super"}
    /\ "KEY_ESC" \in ks.state_keysyms

\* variant: the paused flag is not consulted
Gated_NoPause(is_paused, last, cands) ==
    last # NoHotkey \/ Len(cands) = 0

\* lines 265-271: no firing this cycle
Gated(is_paused, last, cands) ==
    is_paused \/ last # NoHotkey \/ Len(cands) = 0

\* variant: one keyboard state shared by all devices
DeviceState_Merged(states, i) ==
    [state_modifiers |-> UNION {states[d].state_modifiers : d \in Devices},
     state_keysyms   |-> UNION {states[d].state_keysyms : d \in Devices}]

\* line 217: the state of the originating device
DeviceState(states, i) == states[i]

\* variant: a fire leaves the timer as it is
ResetOnFire_Keep(timer) == timer

\* line 294: the timer after a fire
ResetOnFire(timer) == repeat_cooldown_duration

\* line 182: the timer after a repeat
ResetOnTick(timer) == repeat_cooldown_duration

\* lines 188-191 and 207-210: ungrab every enumerated keyboard (results dropped)
ungrab_all(held) == {}

\* lines 166-167 and 195-198: grab every enumerated keyboard (results dropped)
grab_all(held) == Devices

\* ------------------------------------------------------------------ history
\* The record of a step that is not a key event.
NoEv(kind) ==
    [kind |-> kind, dev |-> 0, key |-> "", value |-> 0, emitted |-> FALSE,
     fired |-> FALSE, cmd |-> "", latched |-> FALSE, press_emitted |-> FALSE,
     rearmed |-> FALSE, rearmed_any |-> FALSE, gap |-> 0]

\* key is H.keysym or maps to one of H.modifiers
Constituent(h, key) ==
    \/ key = h.keysym
    \/ IsModifierKey(key) /\ modifiers_map[key] \in h.modifiers

TotalHeld == Cardinality(UNION {{<<i, k>> : k \in phys[i]} : i \in Devices})

Min(a, b) == IF a <= b THEN a ELSE b

\* ------------------------------------------------------------------- Init
LoopInit ==
    /\ pc = "loop"
    /\ hotkeys \in Configs
    /\ keyboard_states = [i \in Devices |-> NewKeyboardState]
    /\ last_hotkey = NoHotkey
    /\ paused = FALSE
    /\ temp_paused = FALSE
    /\ hotkey_repeat_timer = 0
    /\ phys = [i \in Devices |-> {}]
    /\ grabbed = Devices
    /\ ev = NoEv("none")
    /\ fwd_down = [i \in Devices |-> {}]
    /\ since_dispatch = repeat_cooldown_duration
    /\ fire_dev = 0
    /\ fire_hotkey = NoHotkey
    /\ rearmed = TRUE
    /\ rearmed_any = TRUE

\* The daemon (process 1) has passed its startup and entered the loop.
Init ==
    /\ LoopInit
    /\ gpc = [p \in Procs |-> IF p = 1 THEN "running" ELSE "idle"]
    /\ pidfile = 1
    /\ swhkd_pid = [p \in Procs |-> 0]

\* The process ends (exit(1) or a panic): its memory is gone, the keyboards
\* stay as they physically are.
Terminate(how, last_ev) ==
    /\ pc' = how
    /\ ev' = last_ev
    /\ hotkeys' = <<>>
    /\ keyboard_states' = [i \in Devices |-> NewKeyboardState]
    /\ last_hotkey' = NoHotkey
    /\ paused' = FALSE
    /\ temp_paused' = FALSE
    /\ hotkey_repeat_timer' = 0
    /\ fwd_down' = [i \in Devices |-> {}]
    /\ since_dispatch' = repeat_cooldown_duration
    /\ fire_dev' = 0
    /\ fire_hotkey' = NoHotkey
    /\ rearmed' = TRUE
    /\ rearmed_any' = TRUE

\* ------------------------------------------------- select! arm: key event
\* lines 216-298.  emit_ok is the result of uinput_device.emit.
KeyEvent(i, key, value, emit_ok) ==
    LET ks0    == DeviceState(keyboard_states, i)
        ks1    == StateAfter(ks0, key, value)
        last1  == LastAfter(last_hotkey, ks0, key, value)
        cands  == possible_hotkeys(hotkeys, ks1)
        inhk   == event_in_hotkeys(hotkeys, ks1, key)
        gated  == Gated(paused, last1, cands)
        match  == IF gated \/ temp_paused THEN NoHotkey ELSE FirstMatch(cands, ks1)
        fired  == match # NoHotkey
        rearm1 == rearmed \/ (value = 0 /\ i = fire_dev /\ Constituent(fire_hotkey, key))
        rearmAny1 ==
            \/ rearmed_any
            \/ /\ value = 0
               /\ fire_hotkey # NoHotkey
               /\ \/ IsModifierKey(key) /\ modifiers_map[key] \in fire_hotkey.modifiers
                  \/ key = fire_hotkey.keysym /\ key \in ks0.state_keysyms
        thisEv == [kind |-> "key", dev |-> i, key |-> key, value |-> value,
                   emitted |-> ~inhk, fired |-> fired, cmd |-> match.command,
                   latched |-> last1 # NoHotkey,
                   press_emitted |-> (value = 0 /\ key \in fwd_down[i]),
                   rearmed |-> rearm1, rearmed_any |-> rearmAny1, gap |-> 0]
    IN
    /\ pc = "loop"
    /\ CASE value = 1 -> key \notin phys[i] /\ TotalHeld < MaxHeld
         [] value = 0 -> key \in phys[i]
         [] OTHER     -> key \in phys[i]
    /\ phys' = [phys EXCEPT ![i] = CASE value = 1 -> @ \cup {key}
                                     [] value = 0 -> @ \ {key}
                                     [] OTHER     -> @]
    /\ IF ~inhk /\ ~emit_ok
       THEN \* line 262: unwrap() on the emit error
            Terminate("panic", [NoEv("key") EXCEPT !.dev = i, !.key = key,
                                                   !.value = value, !.emitted = TRUE])
       ELSE /\ pc' = "loop"
            /\ ev' = thisEv
            /\ keyboard_states' = [keyboard_states EXCEPT ![i] = ks1]
            /\ hotkeys' = hotkeys
            /\ paused' = paused
            /\ fwd_down' = [fwd_down EXCEPT ![i] =
                              CASE value = 1 -> IF inhk THEN @ \ {key} ELSE @ \cup {key}
                                [] value = 0 -> @ \ {key}
                                [] OTHER     -> @]
            /\ temp_paused' = IF ~gated /\ temp_paused /\ TempPauseEscape(ks1)
                              THEN FALSE ELSE temp_paused
            /\ IF fired
               THEN /\ last_hotkey' = match
                    /\ hotkey_repeat_timer' = ResetOnFire(hotkey_repeat_timer)
                    /\ since_dispatch' = 0
                    /\ fire_dev' = i
                    /\ fire_hotkey' = match
                    /\ rearmed' = FALSE
                    /\ rearmed_any' = FALSE
               ELSE /\ last_hotkey' = last1
                    /\ rearmed' = rearm1
                    /\ rearmed_any' = rearmAny1
                    /\ fire_dev' = IF rearm1 THEN 0 ELSE fire_dev
                    /\ fire_hotkey' = IF rearm1 THEN NoHotkey ELSE fire_hotkey
                    /\ UNCHANGED <<hotkey_repeat_timer, since_dispatch>>
    /\ UNCHANGED <<grabbed, guardvars>>

DeviceEvent == \E i \in Devices : \E key \in DevKeys[i], value \in 0..2, emit_ok \in BOOLEAN :
                  KeyEvent(i, key, value, emit_ok)

\* ---------------------------------------------- select! arm: repeat timer
\* lines 179-183
RepeatTimer ==
    /\ pc = "loop"
    /\ last_hotkey # NoHotkey
    /\ hotkey_repeat_timer = 0
    /\ ev' = [NoEv("timer") EXCEPT !.cmd = last_hotkey.command, !.gap = since_dispatch]
    /\ hotkey_repeat_timer' = ResetOnTick(hotkey_repeat_timer)
    /\ since_dispatch' = 0
    /\ UNCHANGED <<pc, hotkeys, keyboard_states, last_hotkey, paused, temp_paused,
                   phys, grabbed, fwd_down, fire_dev, fire_hotkey,
                   rearmed, rearmed_any, guardvars>>

\* One unit of time passes (tokio's clock).
AdvanceTime ==
    /\ pc = "loop"
    /\ hotkey_repeat_timer > 0 \/ since_dispatch < repeat_cooldown_duration
    /\ hotkey_repeat_timer' = IF hotkey_repeat_timer > 0 THEN hotkey_repeat_timer - 1 ELSE 0
    /\ since_dispatch' = Min(since_dispatch + 1, repeat_cooldown_duration)
    /\ UNCHANGED <<pc, hotkeys, keyboard_states, last_hotkey, paused, temp_paused,
                   phys, grabbed, ev, fwd_down, fire_dev, fire_hotkey,
                   rearmed, rearmed_any, guardvars>>

\* --------------------------------------------------- select! arm: signals
SignalFrame == <<keyboard_states, last_hotkey,
                 hotkey_repeat_timer, phys, fwd_down, since_dispatch, fire_dev,
                 fire_hotkey, rearmed, rearmed_any, guardvars>>

\* lines 186-192
SigUsr1 ==
    /\ pc = "loop"
    /\ paused' = TRUE
    /\ grabbed' = ungrab_all(grabbed)
    /\ ev' = [NoEv("signal") EXCEPT !.key = "SIGUSR1"]
    /\ UNCHANGED <<pc, hotkeys, temp_paused, SignalFrame>>

\* lines 193-199
SigUsr2 ==
    /\ pc = "loop"
    /\ paused' = FALSE
    /\ grabbed' = grab_all(grabbed)
    /\ ev' = [NoEv("signal") EXCEPT !.key = "SIGUSR2"]
    /\ UNCHANGED <<pc, hotkeys, temp_paused, SignalFrame>>

\* lines 82-106
load_config(cfg) == cfg

\* variant: a reload starts every keyboard from a new state
SigHup_ResetStates(ok, cfg) ==
    /\ pc = "loop"
    /\ ok
    /\ hotkeys' = load_config(cfg)
    /\ keyboard_states' = [i \in Devices |-> NewKeyboardState]
    /\ ev' = [NoEv("signal") EXCEPT !.key = "SIGHUP"]
    /\ UNCHANGED <<pc, paused, temp_paused, grabbed, last_hotkey,
                   hotkey_repeat_timer, phys, fwd_down, since_dispatch, fire_dev,
                   fire_hotkey, rearmed, rearmed_any, guardvars>>

\* lines 200-202; load_config exits the process when the file is missing or invalid
SigHup(ok, cfg) ==
    /\ pc = "loop"
    /\ IF ok
       THEN /\ hotkeys' = load_config(cfg)
            /\ ev' = [NoEv("signal") EXCEPT !.key = "SIGHUP"]
            /\ UNCHANGED <<pc, paused, temp_paused, grabbed, SignalFrame>>
       ELSE \* lines 92 and 98: exit(1) inside load_config
            /\ Terminate("exit1", [NoEv("signal") EXCEPT !.key = "SIGHUP"])
            /\ UNCHANGED <<phys, grabbed, guardvars>>

\* lines 203-205
SigInt ==
    /\ pc = "loop"
    /\ temp_paused' = TRUE
    /\ ev' = [NoEv("signal") EXCEPT !.key = "SIGINT"]
    /\ UNCHANGED <<pc, hotkeys, paused, grabbed, SignalFrame>>

\* lines 206-213
SigOther ==
    /\ pc = "loop"
    /\ grabbed' = ungrab_all(grabbed)
    /\ Terminate("exit1", [NoEv("signal") EXCEPT !.key = "SIGTERM"])
    /\ UNCHANGED <<phys, guardvars>>

Reload == \E ok \in BOOLEAN, cfg \in Configs : SigHup(ok, cfg)

Next ==
    \/ DeviceEvent
    \/ RepeatTimer
    \/ AdvanceTime
    \/ SigUsr1
    \/ SigUsr2
    \/ Reload
    \/ SigInt
    \/ SigOther

Spec == Init /\ [][Next]_vars

\* ------------------------------------------------- single-instance guard
\* No process started yet, no PID file.
GuardInit ==
    /\ LoopInit
    /\ gpc = [p \in Procs |-> "idle"]
    /\ pidfile = 0
    /\ swhkd_pid = [p \in Procs |-> 0]

\* sys.processes(): the processes that exist
Alive(q) == gpc[q] \notin {"idle", "exited"}

\* a user starts swhkd
Launch(p) ==
    /\ gpc[p] = "idle"
    /\ gpc' = [gpc EXCEPT ![p] = "exists"]
    /\ UNCHANGED <<pidfile, swhkd_pid, loopvars>>

\* line 51
PidfileExists(p) ==
    /\ gpc[p] = "exists"
    /\ gpc' = [gpc EXCEPT ![p] = IF pidfile # 0 THEN "read" ELSE "write"]
    /\ UNCHANGED <<pidfile, swhkd_pid, loopvars>>

\* lines 53-60
ReadPidfile(p) ==
    /\ gpc[p] = "read"
    /\ swhkd_pid' = [swhkd_pid EXCEPT ![p] = pidfile]
    /\ gpc' = [gpc EXCEPT ![p] = "scan"]
    /\ UNCHANGED <<pidfile, loopvars>>

\* lines 62-69; every process runs the same executable
ScanProcesses(p) ==
    /\ gpc[p] = "scan"
    /\ gpc' = [gpc EXCEPT ![p] = IF \E q \in Procs : Alive(q) /\ q = swhkd_pid[p]
                                 THEN "exited" ELSE "write"]
    /\ UNCHANGED <<pidfile, swhkd_pid, loopvars>>

\* lines 72-78
WritePidfile(p) ==
    /\ gpc[p] = "write"
    /\ pidfile' = p
    /\ gpc' = [gpc EXCEPT ![p] = "perm"]
    /\ UNCHANGED <<swhkd_pid, loopvars>>

\* lines 80, 304-321
permission_check(p, is_root) ==
    /\ gpc[p] = "perm"
    /\ gpc' = [gpc EXCEPT ![p] = IF is_root THEN "running" ELSE "exited"]
    /\ UNCHANGED <<pidfile, swhkd_pid, loopvars>>

\* lines 206-213: a running daemon ends; the PID file stays
DaemonExit(p) ==
    /\ gpc[p] = "running"
    /\ gpc' = [gpc EXCEPT ![p] = "exited"]
    /\ UNCHANGED <<pidfile, swhkd_pid, loopvars>>

NextGuard ==
    \/ \E p \in Procs : Launch(p)
    \/ \E p \in Procs : PidfileExists(p)
    \/ \E p \in Procs : ReadPidfile(p)
    \/ \E p \in Procs : ScanProcesses(p)
    \/ \E p \in Procs : WritePidfile(p)
    \/ \E p \in Procs, is_root \in BOOLEAN : permission_check(p, is_root)
    \/ \E p \in Procs : DaemonExit(p)

SpecGuard == GuardInit /\ [][NextGuard]_vars

\* The processes that are past the guard (the PID file is written).
PastGuard == {p \in Procs : gpc[p] \in {"perm", "running"}}

\* C5: the single-instance guard prevents concurrent daemons: at most one
\* process is past the guard at any time, for every interleaving of startups.
C5_SingleInstance == Cardinality(PastGuard) <= 1

\* ------------------------------------------------------------ properties
\* The last step was a key event handled by the running daemon.
KeyStepDone == pc = "loop" /\ ev.kind = "key"

Fired == KeyStepDone /\ ev.fired

\* This step is the passing of time (the only step that keeps ev and moves a clock).
TimeStep ==
    /\ ev' = ev
    /\ <<hotkey_repeat_timer, since_dispatch>>' # <<hotkey_repeat_timer, since_dispatch>>

\* This step is a key event handled to its end.
KeyStep == pc' = "loop" /\ ev'.kind = "key" /\ ~TimeStep

\* The modifiers that the keys in the set down map to.
PhysModifiers(down) == {modifiers_map[k] : k \in {x \in down : IsModifierKey(x)}}

\* C1: when a device event fires a hotkey H, the originating device's
\* held_modifiers equals H.modifiers exactly and H.keysym is in its held_keys;
\* H is the new LastHotkey and its command is the one dispatched.
C1_FireExactModifiers ==
    Fired =>
        /\ last_hotkey # NoHotkey
        /\ ev.cmd = last_hotkey.command
        /\ keyboard_states[ev.dev].state_modifiers = last_hotkey.modifiers
        /\ last_hotkey.keysym \in keyboard_states[ev.dev].state_keysyms

\* a two-modifier binding fired while a third key was held as well
C1_Witness ==
    /\ Fired
    /\ last_hotkey = HkFloat
    /\ Cardinality(phys[ev.dev]) = 3

\* C2: a key event is forwarded to the Virtual Output iff no hotkey of the
\* table has the event's code as keysym and the device's held_modifiers
\* (after the state update) as modifier set.
C2_ForwardIffNoHotkey ==
    KeyStepDone =>
        (ev.emitted <=>
            ~ \E n \in 1..Len(hotkeys) :
                /\ hotkeys[n].keysym = ev.key
                /\ hotkeys[n].modifiers = keyboard_states[ev.dev].state_modifiers)

\* a release was suppressed, and the same key's press on the other keyboard
\* state would pass
C2_Witness ==
    /\ KeyStepDone
    /\ ev.value = 0
    /\ ~ev.emitted
    /\ ev.key = "KEY_ENTER"
    /\ keyboard_states[ev.dev].state_modifiers = {"Super", "Shift"}

\* C3: the press of a key is forwarded iff its matching release is forwarded.
C3_NoHalfChord ==
    (KeyStepDone /\ ev.value = 0) => (ev.emitted <=> ev.press_emitted)

\* C4 (scenario): table {Super+Return -> "term"}, not paused, not latched;
\* press LEFTMETA then press ENTER on one keyboard.
C4_AfterMetaPress(i) ==
    /\ pc = "loop"
    /\ hotkeys = <<HkTerm>>
    /\ ~paused /\ ~temp_paused
    /\ last_hotkey = NoHotkey
    /\ ev.kind = "key" /\ ev.dev = i /\ ev.key = "KEY_LEFTMETA" /\ ev.value = 1
    /\ keyboard_states[i] = [state_modifiers |-> {"Super"}, state_keysyms |-> {}]

C4_EnterPress(i) ==
    ev'.kind = "key" /\ ev'.dev = i /\ ev'.key = "KEY_ENTER" /\ ev'.value = 1

C4_FiresOnce ==
    /\ pc' = "loop"
    /\ ev'.fired /\ ev'.cmd = "term"
    /\ last_hotkey' = HkTerm
    /\ ~ev'.emitted

\* C4 as claimed: one command is dispatched, LastHotkey becomes the hotkey, and
\* neither the ENTER press nor the LEFTMETA press is emitted.
C4_BasicFire_Claimed ==
    [][\A i \in Devices :
         (C4_AfterMetaPress(i) /\ C4_EnterPress(i)) => (C4_FiresOnce /\ ~ev.emitted)]_vars

\* C4 as amended: one command is dispatched, LastHotkey becomes the hotkey,
\* the ENTER press is not emitted, and the LEFTMETA press was emitted.
C4_BasicFire ==
    [][\A i \in Devices :
         (C4_AfterMetaPress(i) /\ C4_EnterPress(i)) => (C4_FiresOnce /\ ev.emitted)]_vars

C4_Witness ==
    /\ Fired
    /\ hotkeys = <<HkTerm>>
    /\ ev.key = "KEY_ENTER" /\ ev.value = 1 /\ ~ev.emitted
    /\ last_hotkey = HkTerm
    /\ keyboard_states[ev.dev] =
           [state_modifiers |-> {"Super"}, state_keysyms |-> {"KEY_ENTER"}]
    /\ fwd_down[ev.dev] = {"KEY_LEFTMETA"}

\* C6: a device event never fires a hotkey when paused or temp_paused is true,
\* or when LastHotkey is set at the time the matcher runs for that event.
C6_NoFireWhenGated ==
    [][(KeyStep /\ ev'.fired) =>
          /\ ~paused
          /\ ~temp_paused
          /\ ~ev'.latched
          /\ (ev'.value # 0 => last_hotkey = NoHotkey)]_vars

\* a release cleared the latch and the same event fired another binding
C6_Witness ==
    /\ Fired
    /\ ev.value = 0
    /\ last_hotkey = HkTerm

\* C7 as claimed: after H fired on device D, no device event fires a hotkey
\* until a constituent key of H was released on D.
C7_RearmOnFireDevice_Claimed == Fired => ev.rearmed

\* C7 as amended: after H fired, no device event fires a hotkey until a key
\* mapping to one of H.modifiers was released on any keyboard, or H.keysym was
\* released on a keyboard whose held_keys contained it.
C7_RearmOnAnyDevice == Fired => ev.rearmed_any

\* a hotkey fired again although no constituent key was released on the
\* keyboard that fired it
C7_Witness ==
    /\ Fired
    /\ ev.rearmed_any
    /\ ~ev.rearmed

\* C8: an event from device i leaves the state of every other device
\* unchanged, and a hotkey fires only when the firing keyboard itself has the
\* hotkey's modifiers and keysym down.
C8_PerDeviceState ==
    [][KeyStep =>
          /\ \A j \in Devices \ {ev'.dev} : keyboard_states'[j] = keyboard_states[j]
          /\ ev'.fired =>
                /\ last_hotkey'.modifiers \subseteq PhysModifiers(phys'[ev'.dev])
                /\ last_hotkey'.keysym \in phys'[ev'.dev]]_vars

\* Super is held on keyboard 1 only, ENTER is pressed on keyboard 2, the
\* daemon is free to fire, and nothing fires
C8_Witness ==
    /\ KeyStepDone
    /\ hotkeys = <<HkTerm>>
    /\ ev.dev = 2 /\ ev.key = "KEY_ENTER" /\ ev.value = 1
    /\ keyboard_states[1].state_modifiers = {"Super"}
    /\ keyboard_states[2] = [state_modifiers |-> {}, state_keysyms |-> {"KEY_ENTER"}]
    /\ ~paused /\ ~temp_paused /\ ~ev.latched
    /\ ~ev.fired
    /\ last_hotkey = NoHotkey

\* C9: every repeat-timer dispatch happens at least the cooldown after the
\* previous dispatch (the fire or an earlier repeat).
C9_RepeatCooldown ==
    (pc = "loop" /\ ev.kind = "timer") =>
        /\ ev.gap >= repeat_cooldown_duration
        /\ ev.cmd = last_hotkey.command

\* a repeat was dispatched, the timer is armed again
C9_Witness ==
    /\ pc = "loop"
    /\ ev.kind = "timer"
    /\ ev.cmd = "term"
    /\ hotkey_repeat_timer = repeat_cooldown_duration
    /\ since_dispatch = 0

\* C10: temp_paused changes from true to false only on a device event after
\* which the device's held_modifiers is exactly {Super, Shift} and Escape is
\* in its held_keys.
C10_OnlyLiteralCombo ==
    [][(pc' = "loop" /\ temp_paused /\ ~temp_paused') =>
          /\ ev'.kind = "key"
          /\ keyboard_states'[ev'.dev].state_modifiers = {"Super", "Shift"}
          /\ "KEY_ESC" \in keyboard_states'[ev'.dev].state_keysyms]_vars

\* C11: with temp_paused set, the daemon not paused and no hotkey latched, a
\* press that completes Super+Shift+Escape on one keyboard clears temp_paused,
\* whatever the HotkeyTable holds.
C11_EscapeAlwaysClears ==
    [][(/\ KeyStep
        /\ ev'.value = 1
        /\ temp_paused /\ ~paused /\ ~ev'.latched
        /\ keyboard_states'[ev'.dev].state_modifiers = {"Super", "Shift"}
        /\ "KEY_ESC" \in keyboard_states'[ev'.dev].state_keysyms)
          => ~temp_paused']_vars

\* C12: a reload never ends the daemon: after a SIGHUP, failed or not, the
\* event loop is still running.
C12_ReloadKeepsRunning ==
    (ev.kind = "signal" /\ ev.key = "SIGHUP") => pc = "loop"

\* C13: when the daemon has ended by a terminating signal or by a failed emit
\* to the Virtual Output, no keyboard is left grabbed.
C13_UngrabOnExit ==
    (pc = "panic" \/ (pc = "exit1" /\ ev.key = "SIGTERM")) => grabbed = {}

\* C14: a successful reload changes neither the held sets of any device nor
\* the run modes and LastHotkey, and the release of a key always removes it
\* (or its modifier) from the device's state, also after a reload.
C14_ReloadKeepsState ==
    [][/\ (pc' = "loop" /\ ev'.kind = "signal" /\ ev'.key = "SIGHUP") =>
             /\ keyboard_states' = keyboard_states
             /\ last_hotkey' = last_hotkey
             /\ paused' = paused /\ temp_paused' = temp_paused
       /\ (KeyStep /\ ev'.value = 0) =>
             IF IsModifierKey(ev'.key)
             THEN modifiers_map[ev'.key] \notin keyboard_states'[ev'.dev].state_modifiers
             ELSE ev'.key \notin keyboard_states'[ev'.dev].state_keysyms]_vars

\* the table was replaced by an empty one while Super+Return was held and latched
C14_Witness ==
    /\ pc = "loop"
    /\ ev.kind = "signal" /\ ev.key = "SIGHUP"
    /\ hotkeys = <<>>
    /\ last_hotkey = HkTerm
    /\ keyboard_states[1] = [state_modifiers |-> {"Super"}, state_keysyms |-> {"KEY_ENTER"}]

\* C15: once every pressed key has been released again (nothing is physically
\* down on a device), held_keys and held_modifiers of that device are empty.
C15_BalancedLeavesEmpty ==
    pc = "loop" =>
        \A i \in Devices : phys[i] = {} => keyboard_states[i] = NewKeyboardState

\* the last key went up on keyboard 1, with the pause signals interleaved
C15_Witness ==
    /\ KeyStepDone
    /\ ev.value = 0 /\ ev.dev = 1 /\ ev.key = "KEY_RIGHTMETA"
    /\ \A i \in Devices : phys[i] = {}
    /\ temp_paused /\ paused

\* C16: on every device, a modifier is in held_modifiers iff one of the
\* physical keys mapped to it is down.
C16_ModifierIffKeyDown ==
    pc = "loop" =>
        \A i \in Devices : keyboard_states[i].state_modifiers = PhysModifiers(phys[i])

\* C17: a key event of value 2 never fires a hotkey.
C17_RepeatValueIgnored ==
    (KeyStepDone /\ ev.value = 2) => (~ev.fired /\ ev.cmd = "")

\* C18: while paused, no command is dispatched, neither by a device event nor
\* by the repeat timer.
C18_NoDispatchWhilePaused ==
    (pc = "loop" /\ ev.kind \in {"key", "timer"} /\ ev.cmd # "") => ~paused

\* C19: LastHotkey, when set, is an entry of the current HotkeyTable.
C19_LastHotkeyInTable ==
    (pc = "loop" /\ last_hotkey # NoHotkey) =>
        \E n \in 1..Len(hotkeys) : hotkeys[n] = last_hotkey

\* C20: while LastHotkey is set to H, fired from device D, D holds the whole
\* chord: H.modifiers is a subset of D's held_modifiers and H.keysym is in D's
\* held_keys; so it is at every repeat-timer dispatch.
C20_LatchedChordHeld ==
    (pc = "loop" /\ last_hotkey # NoHotkey) =>
        /\ fire_dev \in Devices
        /\ fire_hotkey = last_hotkey
        /\ last_hotkey.modifiers \subseteq keyboard_states[fire_dev].state_modifiers
        /\ last_hotkey.keysym \in keyboard_states[fire_dev].state_keysyms

\* a repeat of Super+Return was dispatched while Shift was held as well
C20_Witness ==
    /\ pc = "loop"
    /\ ev.kind = "timer"
    /\ last_hotkey = HkTerm
    /\ fire_dev = 1
    /\ keyboard_states[1].state_modifiers = {"Super", "Shift"}

====
